---- MODULE Spec2Model ----
(***************************************************************************)
(* A model of src/apps.py: the per-ISBN enrichment pipeline (three         *)
(* provider clients, the sequential Amazon-domain resolver, the            *)
(* first-writer-wins merge) and the thread-pool loop that runs one         *)
(* pipeline per ISBN, collects rows in completion order, reports progress  *)
(* and exports the sheet.                                                  *)
(*                                                                         *)
(* Python values are records [kind, s, n]: None, a str (a sequence of      *)
(* one-character strings, so that strip, join and sorting are computed),   *)
(* or a number.  A dict is a function from its keys to values.             *)
(***************************************************************************)
EXTENDS Integers, Sequences, FiniteSets, TLC

\* ------------------------------------------------------------ Python values

None == [kind |-> "none", s |-> <<>>, n |-> 0]

Str(cs) == [kind |-> "str", s |-> cs, n |-> 0]

Num(k) == [kind |-> "num", s |-> <<>>, n |-> k]

EmptyDict == [k \in {} |-> None]

\* dict.get(k): None when the key is absent
DictGet(d, k) == IF k \in DOMAIN d THEN d[k] ELSE None

\* The characters the model's strings use, in code-point order (for sorted()).
Alphabet ==
    << " ", "$", ",", ".", "0", "1", "2", "3", "4", "5", "6", "7", "8", "9",
       "A", "B", "C", "F", "G", "I", "N", "P", "T",
       "a", "b", "c", "d", "e", "g", "i", "k", "l", "m", "n", "o", "p", "r",
       "s", "u", "z" >>

Ord(c) == CHOOSE i \in 1..Len(Alphabet) : Alphabet[i] = c

DigitChar == << "0", "1", "2", "3", "4", "5", "6", "7", "8", "9" >>

RECURSIVE Digits(_)
Digits(k) ==
    IF k < 10 THEN << DigitChar[k + 1] >>
    ELSE Digits(k \div 10) \o << DigitChar[(k % 10) + 1] >>

\* str(x)
PyStr(x) ==
    CASE x.kind = "none" -> << "N", "o", "n", "e" >>
      [] x.kind = "str"  -> x.s
      [] x.kind = "num"  -> Digits(x.n)

RECURSIVE LStrip(_)
LStrip(cs) ==
    IF cs # <<>> /\ Head(cs) = " " THEN LStrip(Tail(cs)) ELSE cs

RECURSIVE RStrip(_)
RStrip(cs) ==
    IF cs # <<>> /\ cs[Len(cs)] = " " THEN RStrip(SubSeq(cs, 1, Len(cs) - 1)) ELSE cs

\* str.strip()
Strip(cs) == RStrip(LStrip(cs))

\* bool(x)
Truthy(x) ==
    CASE x.kind = "none" -> FALSE
      [] x.kind = "str"  -> x.s # <<>>
      [] x.kind = "num"  -> x.n # 0

\* x == 0
EqZero(x) == x.kind = "num" /\ x.n = 0

\* sep.join(list), on sequences of character sequences
RECURSIVE Join(_, _)
Join(sep, list) ==
    IF list = <<>> THEN <<>>
    ELSE IF Len(list) = 1 THEN list[1]
    ELSE list[1] \o sep \o Join(sep, Tail(list))

CommaSpace == << ",", " " >>

\* str < str
RECURSIVE LexLess(_, _)
LexLess(a, b) ==
    IF b = <<>> THEN FALSE
    ELSE IF a = <<>> THEN TRUE
    ELSE IF Head(a) # Head(b) THEN Ord(Head(a)) < Ord(Head(b))
    ELSE LexLess(Tail(a), Tail(b))

\* sorted(S) of a set of strings
RECURSIVE Sorted(_)
Sorted(S) ==
    IF S = {} THEN <<>>
    ELSE LET m == CHOOSE x \in S : \A y \in S \ {x} : LexLess(x, y)
         IN  << m >> \o Sorted(S \ {m})

\* ------------------------------------------------------------------ helpers

is_missing(x) == x.kind = "none" \/ Strip(PyStr(x)) = <<>>

\* --------------------------------------------------------------- constants

TagSerp == << "s", "e", "r", "p" >>

TagIsbndb == << "i", "s", "b", "n", "d", "b" >>

TagGoogle == << "g", "o", "o", "g", "l", "e" >>

COLOR_MAP ==
    [t \in {TagSerp, TagIsbndb, TagGoogle} |->
        CASE t = TagSerp   -> "1E3A8A"
          [] t = TagIsbndb -> "064E3B"
          [] t = TagGoogle -> "FACC15"]

AmazonIn == << "a", "m", "a", "z", "o", "n", ".", "i", "n" >>

AmazonCom == << "a", "m", "a", "z", "o", "n", ".", "c", "o", "m" >>

AmazonCoUk == << "a", "m", "a", "z", "o", "n", ".", "c", "o", ".", "u", "k" >>

AmazonDe == << "a", "m", "a", "z", "o", "n", ".", "d", "e" >>

\* SERP_PRIORITY with the first two domains exchanged
SERP_PRIORITY_ComFirst == << AmazonCom, AmazonIn, AmazonCoUk, AmazonDe >>

SERP_PRIORITY == << AmazonIn, AmazonCom, AmazonCoUk, AmazonDe >>

\* d[k] = v on a dict (the key is added when absent)
DictSet(d, k, v) == [x \in (DOMAIN d) \cup {k} |-> IF x = k THEN v ELSE d[x]]

\* {k: tag for k, v in data.items() if not is_missing(v)}
TagPresent(data, tag) ==
    [k \in {x \in DOMAIN data : ~is_missing(data[x])} |-> Str(tag)]

\* --------------------------------------------------------- provider clients
\* A provider outcome is what the HTTP call produced: o.kind says how far the
\* client's code gets, the other fields are the JSON members it reads.

\* price_field.get("raw") if isinstance(price_field, dict) else price_field
NormalisePrice(pf) == IF pf.shape = "dict" THEN pf.raw ELSE pf.scalar

serp_fetch(o) ==
    IF o.kind \in {"network_error", "timeout", "not_json", "not_object",
                   "first_not_object"}
    THEN EmptyDict
    ELSE IF o.kind \in {"no_results_key", "empty_results"}
    THEN EmptyDict
    ELSE [title |-> o.title, price |-> NormalisePrice(o.price_field)]

IsbndbEmpty == [data |-> EmptyDict, colors |-> EmptyDict]

IsbndbBook(o) ==
    [title           |-> o.title,
     author          |-> Str(Join(CommaSpace,
                            IF o.authors.shape = "absent" THEN <<>>
                            ELSE o.authors.items)),
     publisher       |-> o.publisher,
     binding         |-> o.binding,
     edition         |-> o.edition,
     number_of_pages |-> o.pages,
     category        |-> None,
     price           |-> o.msrp]

get_isbndb_data(o) ==
    IF o.kind \in {"network_error", "timeout"} THEN IsbndbEmpty
    ELSE IF o.kind = "status_non200" THEN IsbndbEmpty
    ELSE IF o.kind \in {"not_json", "not_object", "book_not_object"}
         \/ o.authors.shape = "null"
    THEN IsbndbEmpty
    ELSE [data |-> IsbndbBook(o), colors |-> TagPresent(IsbndbBook(o), TagIsbndb)]

GoogleEmpty == [raised |-> FALSE, data |-> EmptyDict, colors |-> EmptyDict]

GoogleRaised == [raised |-> TRUE, data |-> EmptyDict, colors |-> EmptyDict]

GoogleVolume(o) ==
    [title           |-> o.title,
     author          |-> IF o.authors.shape = "list" /\ o.authors.items # <<>>
                         THEN Str(Join(CommaSpace, o.authors.items))
                         ELSE None,
     publisher       |-> o.publisher,
     number_of_pages |-> o.pageCount,
     category        |-> IF o.categories.shape = "absent" THEN None
                         ELSE Str(o.categories.items[1]),
     price           |-> None]

get_google_books_data(o) ==
    IF o.kind \in {"network_error", "timeout", "not_json"} THEN GoogleEmpty
    ELSE IF o.kind = "not_container" THEN GoogleRaised
    ELSE IF o.kind = "no_items" THEN GoogleEmpty
    ELSE IF o.kind \in {"empty_items", "no_volumeInfo"} THEN GoogleRaised
    ELSE IF o.categories.shape = "list" /\ o.categories.items = <<>>
    THEN GoogleRaised
    ELSE [raised |-> FALSE,
          data   |-> GoogleVolume(o),
          colors |-> TagPresent(GoogleVolume(o), TagGoogle)]

\* ----------------------------------------------------- get_serp_sequential

\* The locals of get_serp_sequential before its loop; brk: the loop has broken.
ResolverStart ==
    [final       |-> [title |-> None, price |-> None],
     colors      |-> EmptyDict,
     domain_used |-> None,
     serp_calls  |-> 0,
     brk         |-> FALSE]

\* SkipRule with the zero test forgotten
SkipOnlyNone(domain, price) == domain = AmazonIn /\ price.kind = "none"

\* RULE: skip amazon.in if price is 0 or None
SkipRule(domain, price) ==
    domain = AmazonIn /\ (price.kind = "none" \/ EqZero(price))

\* BothAdopted testing the title alone
BreakOnTitle(final) == Truthy(final["title"])

\* BothAdopted with the break forgotten
NeverBreak(final) == FALSE

\* if final["title"] and final["price"]: break
BothAdopted(final) == Truthy(final["title"]) /\ Truthy(final["price"])

\* AdoptTitle without the test that no title is held yet
AdoptTitleLatest(final, title) == ~is_missing(title)

AdoptTitle(final, title) == is_missing(final["title"]) /\ ~is_missing(title)

AdoptPrice(final, price) ==
    is_missing(final["price"]) /\ ~is_missing(price) /\ ~EqZero(price)

\* Credit with the assignment under the price fill forgotten
CreditTitleOnly(used, domain, takeT, takeP) ==
    IF takeT THEN Str(domain) ELSE used

\* domain_used = domain, under either fill (lines 124 and 129)
Credit(used, domain, takeT, takeP) ==
    IF takeT \/ takeP THEN Str(domain) ELSE used

\* One iteration of the loop over SERP_PRIORITY, data = serp_fetch(isbn, domain).
LoopBody(st, domain, data) ==
    LET called == [st EXCEPT !.serp_calls = @ + 1]
        title  == DictGet(data, "title")
        price  == DictGet(data, "price")
        takeT  == AdoptTitle(st.final, title)
        final1 == IF takeT THEN [st.final EXCEPT !["title"] = title] ELSE st.final
        takeP  == AdoptPrice(final1, price)
        final2 == IF takeP THEN [final1 EXCEPT !["price"] = price] ELSE final1
        col1   == IF takeT THEN DictSet(st.colors, "title", Str(TagSerp))
                  ELSE st.colors
        col2   == IF takeP THEN DictSet(col1, "price", Str(TagSerp)) ELSE col1
    IN  IF DOMAIN data = {} THEN called
        ELSE IF SkipRule(domain, price) THEN called
        ELSE [called EXCEPT
                !.final       = final2,
                !.colors      = col2,
                !.domain_used = Credit(@, domain, takeT, takeP),
                !.brk         = BothAdopted(final2)]

\* ----------------------------------------------------- process_single_isbn

Columns ==
    << "ISBN", "title", "author", "publisher", "binding", "edition",
       "number_of_pages", "category", "price", "amazon_domain_used",
       "serp_api_calls", "source_used" >>

ColumnSet == {Columns[i] : i \in 1..Len(Columns)}

RowTemplate(isbn) == [k \in ColumnSet |-> IF k = "ISBN" THEN isbn ELSE None]

RowColorStart == [k \in {"ISBN"} |-> None]

\* MergeSerp that also tags the two metadata fields as serp-supplied
MergeSerpTagMeta(acc, res) ==
    LET row1 == [acc.row EXCEPT !["amazon_domain_used"] = res.domain_used,
                                !["serp_api_calls"] = Num(res.serp_calls)]
        put  == {k \in DOMAIN res.final : ~is_missing(res.final[k])}
        meta == {"amazon_domain_used", "serp_api_calls"}
    IN  [row       |-> [k \in DOMAIN row1 |->
                           IF k \in put THEN res.final[k] ELSE row1[k]],
         row_color |-> [k \in (DOMAIN acc.row_color) \cup put \cup meta |->
                           IF k \in put THEN DictGet(res.colors, k)
                           ELSE IF k \in meta THEN Str(TagSerp)
                           ELSE acc.row_color[k]]]

\* MergeSerp with the colour assignment outside the if
MergeSerpColorAll(acc, res) ==
    LET row1 == [acc.row EXCEPT !["amazon_domain_used"] = res.domain_used,
                                !["serp_api_calls"] = Num(res.serp_calls)]
        put  == {k \in DOMAIN res.final : ~is_missing(res.final[k])}
    IN  [row       |-> [k \in DOMAIN row1 |->
                           IF k \in put THEN res.final[k] ELSE row1[k]],
         row_color |-> [k \in (DOMAIN acc.row_color) \cup (DOMAIN res.final) |->
                           IF k \in DOMAIN res.final THEN DictGet(res.colors, k)
                           ELSE acc.row_color[k]]]

\* lines 218-225: the resolver's result put into the row
MergeSerp(acc, res) ==
    LET row1 == [acc.row EXCEPT !["amazon_domain_used"] = res.domain_used,
                                !["serp_api_calls"] = Num(res.serp_calls)]
        put  == {k \in DOMAIN res.final : ~is_missing(res.final[k])}
    IN  [row       |-> [k \in DOMAIN row1 |->
                           IF k \in put THEN res.final[k] ELSE row1[k]],
         row_color |-> [k \in (DOMAIN acc.row_color) \cup put |->
                           IF k \in put THEN DictGet(res.colors, k)
                           ELSE acc.row_color[k]]]

\* FillCondition without the test of the row's current value
FillAlways(rowv, v) == ~is_missing(v)

\* if is_missing(row[k]) and not is_missing(v)
FillCondition(rowv, v) == is_missing(rowv) /\ ~is_missing(v)

\* lines 229-232 and 236-239: fill the row's missing fields from a source
MergeFill(acc, data, colors) ==
    LET put == {k \in DOMAIN data : FillCondition(acc.row[k], data[k])}
    IN  [row       |-> [k \in DOMAIN acc.row |->
                           IF k \in put THEN data[k] ELSE acc.row[k]],
         row_color |-> [k \in (DOMAIN acc.row_color) \cup put |->
                           IF k \in put THEN DictGet(colors, k)
                           ELSE acc.row_color[k]]]

\* SourceUsed without the else None
SourceUsedJoinAlways(row_color) ==
    Str(Join(CommaSpace,
             Sorted({row_color[k].s :
                       k \in {x \in DOMAIN row_color : Truthy(row_color[x])}})))

\* SourceUsed with sorted() forgotten: the tags in source-priority order
SourceUsedUnsorted(row_color) ==
    LET used == {row_color[k].s : k \in {x \in DOMAIN row_color : Truthy(row_color[x])}}
    IN  IF used # {}
        THEN Str(Join(CommaSpace,
                      SelectSeq(<< TagSerp, TagIsbndb, TagGoogle >>,
                                LAMBDA tag : tag \in used)))
        ELSE None

\* lines 241-242
SourceUsed(row_color) ==
    LET used == {row_color[k].s : k \in {x \in DOMAIN row_color : Truthy(row_color[x])}}
    IN  IF used # {} THEN Str(Join(CommaSpace, Sorted(used))) ELSE None

Finish(acc) ==
    [acc EXCEPT !.row = [@ EXCEPT !["source_used"] = SourceUsed(acc.row_color)]]

\* ------------------------------------------------------- provider outcomes
\* What the three HTTP services may answer.  Under net = "live" every call
\* draws any outcome; under net = "stub" the outcome is a fixed function of
\* the ISBN (and the domain), as with deterministic provider stubs.

NoPrice == [shape |-> "scalar", scalar |-> None, raw |-> None]

Scalar(v) == [shape |-> "scalar", scalar |-> v, raw |-> None]

Raw(v) == [shape |-> "dict", scalar |-> None, raw |-> v]

SerpFail(kind) == [kind |-> kind, title |-> None, price_field |-> NoPrice]

SerpHit(title, pf) == [kind |-> "hit", title |-> title, price_field |-> pf]

SerpFailKinds ==
    {"network_error", "timeout", "not_json", "not_object", "no_results_key",
     "empty_results", "first_not_object"}

DomainIndex(domain) == CHOOSE i \in 1..Len(SERP_PRIORITY) : SERP_PRIORITY[i] = domain

SerpLive(domain) ==
    {SerpFail(k) : k \in SerpFailKinds}
    \cup {SerpHit(t, pf) :
            t \in {None, Str(<<>>), Str(<<"T">> \o Digits(DomainIndex(domain)))},
            pf \in {Scalar(None), Scalar(Str(<<" ">>)), Scalar(Num(0)),
                    Scalar(Num(10)), Raw(Str(<<"$", "9">>)), Raw(None)}}

NoList == [shape |-> "absent", items |-> <<>>]

List(items) == [shape |-> "list", items |-> items]

NullList == [shape |-> "null", items |-> <<>>]

IsbndbFail(kind) ==
    [kind |-> kind, title |-> None, authors |-> NoList, publisher |-> None,
     binding |-> None, edition |-> None, pages |-> None, msrp |-> None]

IsbndbFailKinds ==
    {"network_error", "timeout", "status_non200", "not_json", "not_object",
     "book_not_object"}

IsbndbRest ==
    { [publisher |-> None, binding |-> None, edition |-> None, pages |-> None],
      [publisher |-> Str(<<"P", "i">>), binding |-> Str(<<"B">>),
       edition |-> Str(<<"2">>), pages |-> Num(120)],
      [publisher |-> Str(<<>>), binding |-> Str(<<" ", " ">>),
       edition |-> None, pages |-> Num(0)] }

IsbndbLive ==
    {IsbndbFail(k) : k \in IsbndbFailKinds}
    \cup {[kind |-> "book", title |-> t, authors |-> a, publisher |-> r.publisher,
           binding |-> r.binding, edition |-> r.edition, pages |-> r.pages,
           msrp |-> m] :
            t \in {None, Str(<<"T", "i">>)},
            a \in {NoList, List(<< <<"A">>, <<"B">> >>), NullList},
            r \in IsbndbRest,
            m \in {None, Num(0), Str(<<"$", "7">>)}}

GoogleFail(kind) ==
    [kind |-> kind, title |-> None, authors |-> NoList, publisher |-> None,
     pageCount |-> None, categories |-> NoList]

GoogleFailKinds ==
    {"network_error", "timeout", "not_json", "not_container", "no_items",
     "empty_items", "no_volumeInfo"}

GoogleLive ==
    {GoogleFail(k) : k \in GoogleFailKinds}
    \cup {[kind |-> "volume", title |-> t, authors |-> a, publisher |-> r.publisher,
           pageCount |-> r.pageCount, categories |-> c] :
            t \in {None, Str(<<"T", "g">>)},
            a \in {NoList, List(<< <<"G">> >>)},
            r \in { [publisher |-> None, pageCount |-> None],
                    [publisher |-> Str(<<"P", "g">>), pageCount |-> Num(99)] },
            c \in {NoList, List(<< <<"C">>, <<"N">> >>), List(<<>>)}}

\* The stubbed ISBNs.
\* Isbn1: amazon.in answers price 0, amazon.com answers Foo at 10; isbndb has
\*        the book; the catalog supplies a category.
\* Isbn2: the search fails on every domain; isbndb has the book; the catalog
\*        answers an empty items list.
\* Isbn3: no provider has anything.
Isbn1 == Str(<<"1">>)

Isbn2 == Str(<<"2">>)

Isbn3 == Str(<<"3">>)

StubIsbns == {Isbn1, Isbn2, Isbn3}

StubSerp(isbn, domain) ==
    IF isbn = Isbn1 /\ domain = AmazonIn
    THEN SerpHit(Str(<<"F", "o", "o">>), Scalar(Num(0)))
    ELSE IF isbn = Isbn1
    THEN SerpHit(Str(<<"F", "o", "o">>), Scalar(Num(10)))
    ELSE IF isbn = Isbn2 THEN SerpFail("timeout")
    ELSE SerpFail("empty_results")

StubIsbndb(isbn) ==
    IF isbn \in {Isbn1, Isbn2}
    THEN [kind |-> "book", title |-> Str(<<"T", "i">>),
          authors |-> List(<< <<"A">>, <<"B">> >>),
          publisher |-> Str(<<"P", "i">>), binding |-> None, edition |-> None,
          pages |-> None, msrp |-> None]
    ELSE IsbndbFail("status_non200")

StubGoogle(isbn) ==
    IF isbn = Isbn1
    THEN [kind |-> "volume", title |-> Str(<<"T", "g">>), authors |-> NoList,
          publisher |-> None, pageCount |-> None,
          categories |-> List(<< <<"C">> >>)]
    ELSE IF isbn = Isbn2 THEN GoogleFail("empty_items")
    ELSE GoogleFail("no_items")

\* A live run is followed on one ISBN.
LiveIsbn == Str(<<"9">>)

\* -------------------------------------------------------------------- state

VARIABLES
    net,            \* "live" or "stub": how the providers answer
    isbns,          \* df["ISBN"], the input column
    tasks,          \* the futures, in submission order, with their task's locals
    main,           \* the script's thread: pc and the loop counter i
    results,        \* results
    color_results,  \* color_results
    progress,       \* the progress reports made, in order
    excel           \* the exported sheet

vars == << net, isbns, tasks, main, results, color_results, progress, excel >>

max_workers == 20

\* The longest input column of a stubbed run.
MaxIsbns == 2

N == Len(isbns)

NoSheet == [written |-> FALSE, header |-> <<>>, rows |-> <<>>]

\* The outcome kinds that are a failure of the provider: a network error, a
\* timeout, a non-success status, or a response that is not JSON or lacks,
\* empties or mis-shapes the members the client reads.
FailureKinds ==
    {"network_error", "timeout", "status_non200", "not_json", "not_object",
     "no_results_key", "empty_results", "first_not_object", "book_not_object",
     "not_container", "no_items", "empty_items", "no_volumeInfo"}

Outcome(kind, empty) ==
    [class |-> IF kind \in FailureKinds THEN "failure" ELSE "answer",
     empty |-> empty]

Call(api, domain) == [api |-> api, domain |-> domain]

\* NewTask whose call counter is not reset per call but carried on from the
\* tasks submitted before
NewTaskSharedCounter(isbn) ==
    [isbn   |-> isbn,
     pc     |-> "queued",
     di     |-> 1,
     res    |-> [ResolverStart EXCEPT !.serp_calls = Len(tasks)],
     acc    |-> [row |-> RowTemplate(isbn), row_color |-> RowColorStart],
     isbndb |-> IsbndbEmpty,
     google |-> GoogleEmpty,
     data   |-> EmptyDict,
     calls  |-> <<>>,
     last   |-> Outcome("none", TRUE),
     nothing |-> TRUE,
     collected |-> FALSE]

\* A future and the locals of its task.  data is get_serp_sequential's local
\* (gone when it returns).  History kept for the properties: calls logs the
\* provider calls made (which client, which domain); last is the latest call's
\* outcome (a provider failure or an answer, and whether the client returned
\* an empty record); nothing says that every call so far returned an empty
\* record.
NewTask(isbn) ==
    [isbn   |-> isbn,
     pc     |-> "queued",
     di     |-> 1,
     res    |-> ResolverStart,
     acc    |-> [row |-> RowTemplate(isbn), row_color |-> RowColorStart],
     isbndb |-> IsbndbEmpty,
     google |-> GoogleEmpty,
     data   |-> EmptyDict,
     calls  |-> <<>>,
     last   |-> Outcome("none", TRUE),
     nothing |-> TRUE,
     collected |-> FALSE]

Completed(t) == tasks[t].pc \in {"finished", "raised"}

Running(t) == tasks[t].pc \in {"serp", "isbndb", "google"}

NumCompleted == Cardinality({t \in 1..Len(tasks) : Completed(t)})

SerpOutcomes(isbn, domain) ==
    IF net = "stub" THEN {StubSerp(isbn, domain)} ELSE SerpLive(domain)

IsbndbOutcomes(isbn) == IF net = "stub" THEN {StubIsbndb(isbn)} ELSE IsbndbLive

GoogleOutcomes(isbn) == IF net = "stub" THEN {StubGoogle(isbn)} ELSE GoogleLive

RECURSIVE SeqsUpTo(_, _)
SeqsUpTo(S, k) ==
    IF k = 0 THEN {<<>>}
    ELSE LET shorter == SeqsUpTo(S, k - 1)
         IN  shorter \cup {Append(q, x) : q \in shorter, x \in S}

InitCommon ==
    /\ tasks = <<>>
    /\ main = [pc |-> "submit", i |-> 0]
    /\ results = <<>>
    /\ color_results = <<>>
    /\ progress = <<>>
    /\ excel = NoSheet

Init ==
    /\ net = "stub"
    /\ isbns \in SeqsUpTo(StubIsbns, MaxIsbns)
    /\ InitCommon

PipeInit ==
    /\ net = "live"
    /\ isbns = << LiveIsbn >>
    /\ InitCommon

\* ------------------------------------------------------------------ actions

\* executor.submit(process_single_isbn, isbn), one per row of the column
Submit ==
    /\ main.pc = "submit"
    /\ Len(tasks) < N
    /\ tasks' = Append(tasks, NewTask(isbns[Len(tasks) + 1]))
    /\ UNCHANGED << net, isbns, main, results, color_results, progress, excel >>

\* as_completed(futures) is entered once every ISBN is submitted
EnterLoop ==
    /\ main.pc = "submit"
    /\ Len(tasks) = N
    /\ main' = [main EXCEPT !.pc = "collect"]
    /\ UNCHANGED << net, isbns, tasks, results, color_results, progress, excel >>

\* a worker thread takes the next queued task
StartTask(t) ==
    /\ tasks[t].pc = "queued"
    /\ \A u \in 1..(t - 1) : tasks[u].pc # "queued"
    /\ Cardinality({u \in 1..Len(tasks) : Running(u)}) < max_workers
    /\ tasks' = [tasks EXCEPT ![t].pc = "serp"]
    /\ UNCHANGED << net, isbns, main, results, color_results, progress, excel >>

\* one iteration of get_serp_sequential's loop; on leaving the loop the
\* resolver returns and its result is put into the row
SerpCall(t) ==
    /\ tasks[t].pc = "serp"
    /\ LET domain == SERP_PRIORITY[tasks[t].di]
       IN  \E o \in SerpOutcomes(tasks[t].isbn, domain) :
             LET res1 == LoopBody(tasks[t].res, domain, serp_fetch(o))
                 out  == res1.brk \/ tasks[t].di = Len(SERP_PRIORITY)
             IN  tasks' = [tasks EXCEPT
                     ![t].res   = res1,
                     ![t].data  = IF out THEN EmptyDict ELSE serp_fetch(o),
                     ![t].calls = Append(@, Call("serp", domain)),
                     ![t].last  = Outcome(o.kind, DOMAIN serp_fetch(o) = {}),
                     ![t].nothing = @ /\ DOMAIN serp_fetch(o) = {},
                     ![t].di    = IF out THEN @ ELSE @ + 1,
                     ![t].acc   = IF out THEN MergeSerp(@, res1) ELSE @,
                     ![t].pc    = IF out THEN "isbndb" ELSE "serp"]
    /\ UNCHANGED << net, isbns, main, results, color_results, progress, excel >>

IsbndbCall(t) ==
    /\ tasks[t].pc = "isbndb"
    /\ \E o \in IsbndbOutcomes(tasks[t].isbn) :
         LET r == get_isbndb_data(o)
         IN  tasks' = [tasks EXCEPT
                 ![t].isbndb = r,
                 ![t].calls  = Append(@, Call("isbndb", <<>>)),
                 ![t].last   = Outcome(o.kind, DOMAIN r.data = {}),
                 ![t].nothing = @ /\ DOMAIN r.data = {},
                 ![t].acc    = MergeFill(@, r.data, r.colors),
                 ![t].pc     = "google"]
    /\ UNCHANGED << net, isbns, main, results, color_results, progress, excel >>

\* the catalog lookup, the last merge and source_used; the task returns, or
\* raises what get_google_books_data raised
GoogleCall(t) ==
    /\ tasks[t].pc = "google"
    /\ \E o \in GoogleOutcomes(tasks[t].isbn) :
         LET r == get_google_books_data(o)
         IN  tasks' = [tasks EXCEPT
                 ![t].google = r,
                 ![t].calls  = Append(@, Call("google", <<>>)),
                 ![t].last   = Outcome(o.kind, ~r.raised /\ DOMAIN r.data = {}),
                 ![t].nothing = @ /\ ~r.raised /\ DOMAIN r.data = {},
                 ![t].acc    = IF r.raised THEN @
                               ELSE Finish(MergeFill(@, r.data, r.colors)),
                 ![t].pc     = IF r.raised THEN "raised" ELSE "finished"]
    /\ UNCHANGED << net, isbns, main, results, color_results, progress, excel >>

\* Report with the number of completed futures in place of the loop counter
ReportCompleted(log, i, total) ==
    Append(log, [i |-> NumCompleted, total |-> total, completed |-> NumCompleted])

\* progress.progress(i / len(df)); status.write(...)
Report(log, i, total) ==
    Append(log, [i |-> i, total |-> total, completed |-> NumCompleted])

\* AppendResult that keeps one entry per distinct item
AppendUnique(list, item) ==
    IF \E i \in 1..Len(list) : list[i] = item THEN list ELSE Append(list, item)

\* results.append(row); color_results.append(row_color)
AppendResult(list, item) == Append(list, item)

\* as_completed yields a returned future: lines 271-276
Collect(t) ==
    /\ main.pc = "collect"
    /\ tasks[t].pc = "finished"
    /\ ~tasks[t].collected
    /\ tasks' = [tasks EXCEPT ![t].collected = TRUE]
    /\ results' = AppendResult(results, tasks[t].acc.row)
    /\ color_results' = AppendResult(color_results, tasks[t].acc.row_color)
    /\ main' = [main EXCEPT !.i = @ + 1]
    /\ progress' = Report(progress, main.i + 1, N)
    /\ UNCHANGED << net, isbns, excel >>

\* as_completed yields a future whose task raised: future.result() re-raises
\* in the script's thread and the loop is left
CollectRaised(t) ==
    /\ main.pc = "collect"
    /\ tasks[t].pc = "raised"
    /\ ~tasks[t].collected
    /\ tasks' = [tasks EXCEPT ![t].collected = TRUE]
    /\ main' = [main EXCEPT !.pc = "unwinding"]
    /\ UNCHANGED << net, isbns, results, color_results, progress, excel >>

\* the with block's exit waits for every task, then the exception ends the run
Abort ==
    /\ main.pc = "unwinding"
    /\ \A t \in 1..Len(tasks) : Completed(t)
    /\ main' = [main EXCEPT !.pc = "aborted"]
    /\ UNCHANGED << net, isbns, tasks, results, color_results, progress, excel >>

\* src in COLOR_MAP, then COLOR_MAP[src]
FontOf(src) ==
    IF src.kind = "str" /\ src.s \in DOMAIN COLOR_MAP THEN COLOR_MAP[src.s]
    ELSE "default"

\* save_partial_excel reading color_results[r_idx - 3]: the provenance map of
\* the result before (of the last one, for the first data row)
save_partial_excel_shifted(rs, cs) ==
    LET cols == IF rs = <<>> THEN <<>> ELSE Columns
    IN  [written |-> TRUE,
         header  |-> cols,
         rows    |-> [r \in 1..Len(rs) |->
                        [c \in 1..Len(cols) |->
                            [value |-> rs[r][cols[c]],
                             font  |-> FontOf(DictGet(cs[IF r = 1 THEN Len(cs)
                                                         ELSE r - 1],
                                                      cols[c]))]]]]

save_partial_excel(rs, cs) ==
    LET cols == IF rs = <<>> THEN <<>> ELSE Columns
    IN  [written |-> TRUE,
         header  |-> cols,
         rows    |-> [r \in 1..Len(rs) |->
                        [c \in 1..Len(cols) |->
                            [value |-> rs[r][cols[c]],
                             font  |-> FontOf(DictGet(cs[r], cols[c]))]]]]

\* the loop is exhausted: the final sheet is built and offered for download
Export ==
    /\ main.pc = "collect"
    /\ \A t \in 1..Len(tasks) : tasks[t].collected
    /\ excel' = save_partial_excel(results, color_results)
    /\ main' = [main EXCEPT !.pc = "done"]
    /\ UNCHANGED << net, isbns, tasks, results, color_results, progress >>

Next ==
    \/ Submit
    \/ EnterLoop
    \/ \E t \in 1..Len(tasks) : StartTask(t)
    \/ \E t \in 1..Len(tasks) : SerpCall(t)
    \/ \E t \in 1..Len(tasks) : IsbndbCall(t)
    \/ \E t \in 1..Len(tasks) : GoogleCall(t)
    \/ \E t \in 1..Len(tasks) : Collect(t)
    \/ \E t \in 1..Len(tasks) : CollectRaised(t)
    \/ Abort
    \/ Export

\* a stubbed run over up to MaxIsbns ISBNs
Spec == Init /\ [][Next]_vars

\* one ISBN against live providers
PipeSpec == PipeInit /\ [][Next]_vars

\* ------------------------------------------- the pipeline as one function
\* process_single_isbn against the stubbed providers, run on its own.

RECURSIVE RunResolver(_, _, _)
RunResolver(st, i, isbn) ==
    IF st.brk \/ i > Len(SERP_PRIORITY) THEN st
    ELSE RunResolver(LoopBody(st, SERP_PRIORITY[i],
                              serp_fetch(StubSerp(isbn, SERP_PRIORITY[i]))),
                     i + 1, isbn)

get_serp_sequential(isbn) == RunResolver(ResolverStart, 1, isbn)

process_single_isbn(isbn) ==
    LET a0 == [row |-> RowTemplate(isbn), row_color |-> RowColorStart]
        a1 == MergeSerp(a0, get_serp_sequential(isbn))
        i  == get_isbndb_data(StubIsbndb(isbn))
        a2 == MergeFill(a1, i.data, i.colors)
        g  == get_google_books_data(StubGoogle(isbn))
    IN  [raised |-> g.raised,
         acc    |-> IF g.raised THEN a2 ELSE Finish(MergeFill(a2, g.data, g.colors))]

\* --------------------------------------------------------------- properties

Tasks == 1..Len(tasks)

MergeFields ==
    {"title", "author", "publisher", "binding", "edition", "number_of_pages",
     "category", "price"}

ProviderTags == {TagSerp, TagIsbndb, TagGoogle}

\* The task's row holds the results of the merges made so far.
Merged(t) == tasks[t].pc \in {"isbndb", "google", "finished", "raised"}

\* C1: first writer wins.  Once the resolver's result is in the row, and after
\* each later merge, every merge-competed field holds the resolver's value if
\* that is not missing, else MetadataLookup's if not missing, else
\* CatalogLookup's if not missing, else it is missing (a source not yet
\* applied has supplied nothing); so no later source overrides an earlier one.
C1_FirstWriterWins ==
    \A t \in Tasks :
        Merged(t) =>
            \A f \in MergeFields :
                LET s1 == DictGet(tasks[t].res.final, f)
                    s2 == DictGet(tasks[t].isbndb.data, f)
                    s3 == DictGet(tasks[t].google.data, f)
                    v  == tasks[t].acc.row[f]
                IN  IF ~is_missing(s1) THEN v = s1
                    ELSE IF ~is_missing(s2) THEN v = s2
                    ELSE IF ~is_missing(s3) THEN v = s3
                    ELSE is_missing(v)

\* A finished task whose three sources all supplied a title.
C1_Witness ==
    \E t \in Tasks :
        /\ tasks[t].pc = "finished"
        /\ ~is_missing(tasks[t].res.final["title"])
        /\ ~is_missing(DictGet(tasks[t].isbndb.data, "title"))
        /\ ~is_missing(DictGet(tasks[t].google.data, "title"))
        /\ tasks[t].acc.row["title"] = tasks[t].res.final["title"]

\* The task has just made its amazon.in attempt, which returned a record.
AfterAmazonIn(t) ==
    /\ tasks[t].pc = "serp"
    /\ tasks[t].di = 2
    /\ DOMAIN tasks[t].data # {}

NothingAdopted(t) ==
    /\ tasks[t].res.final = [title |-> None, price |-> None]
    /\ tasks[t].res.colors = EmptyDict
    /\ tasks[t].res.domain_used = None

\* C2 as claimed: when amazon.in's price is missing (None or blank) or exactly
\* zero, the attempt adopts neither title nor price and amazon.in is not
\* credited.
C2_SkipOnMissingOrZero ==
    \A t \in Tasks :
        (/\ AfterAmazonIn(t)
         /\ (is_missing(tasks[t].data["price"]) \/ EqZero(tasks[t].data["price"])))
        => NothingAdopted(t)

\* C2 amended: when amazon.in's price is None or exactly zero, the attempt
\* adopts neither title nor price, whatever the title is, and amazon.in is not
\* credited as the domain used.
C2_SkipOnNoneOrZero ==
    \A t \in Tasks :
        (/\ AfterAmazonIn(t)
         /\ (tasks[t].data["price"] = None \/ EqZero(tasks[t].data["price"])))
        => NothingAdopted(t)

\* amazon.in has answered a title at price zero.
C2_Witness ==
    \E t \in Tasks :
        /\ AfterAmazonIn(t)
        /\ EqZero(tasks[t].data["price"])
        /\ ~is_missing(tasks[t].data["title"])
        /\ NothingAdopted(t)

SerpAttempts(t) ==
    Cardinality({i \in 1..Len(tasks[t].calls) : tasks[t].calls[i].api = "serp"})

TitleAndPriceAdopted(t) ==
    /\ ~is_missing(tasks[t].res.final["title"])
    /\ ~is_missing(tasks[t].res.final["price"])

\* C3: early exit.  A task whose resolver holds both a title and a price has
\* no domain attempt left to make; the call counter is the number of domain
\* attempts made, which follow the priority list and are at most four.
C3_EarlyExit ==
    \A t \in Tasks :
        /\ tasks[t].pc = "serp" => ~TitleAndPriceAdopted(t)
        /\ tasks[t].res.serp_calls = SerpAttempts(t)
        /\ tasks[t].res.serp_calls <= Len(SERP_PRIORITY)
        /\ \A i \in 1..SerpAttempts(t) :
               tasks[t].calls[i] = Call("serp", SERP_PRIORITY[i])

\* amazon.in gave nothing, amazon.com gave title and price: two calls.
C3_Witness ==
    \E t \in Tasks :
        /\ tasks[t].pc = "isbndb"
        /\ TitleAndPriceAdopted(t)
        /\ tasks[t].res.serp_calls = 2
        /\ SerpAttempts(t) = 2
        /\ tasks[t].res.domain_used = Str(AmazonCom)
        /\ tasks[t].acc.row["serp_api_calls"] = Num(2)

\* C4 as claimed: a client whose provider failed (network error, timeout,
\* non-success status, malformed response) returns an empty record and lets
\* no exception reach its caller.
C4_FailClosed ==
    \A t \in Tasks :
        tasks[t].last.class = "failure" =>
            /\ tasks[t].pc # "raised"
            /\ tasks[t].last.empty

\* C5 as claimed: when every provider call returned nothing, every field of
\* the row but ISBN is null.
C5_OnlyIsbnPopulated ==
    \A t \in Tasks :
        (tasks[t].pc = "finished" /\ tasks[t].nothing) =>
            /\ tasks[t].acc.row["ISBN"] = tasks[t].isbn
            /\ \A k \in ColumnSet \ {"ISBN"} : tasks[t].acc.row[k] = None

\* C5 amended: when every provider call returned nothing, the row holds the
\* ISBN and serp_api_calls = 4 (one attempt per domain), and every other
\* field, source_used included, is null.
C5_AllMissingRow ==
    \A t \in Tasks :
        (tasks[t].pc = "finished" /\ tasks[t].nothing) =>
            /\ tasks[t].acc.row["ISBN"] = tasks[t].isbn
            /\ tasks[t].acc.row["serp_api_calls"] = Num(Len(SERP_PRIORITY))
            /\ \A k \in ColumnSet \ {"ISBN", "serp_api_calls"} :
                   tasks[t].acc.row[k] = None

\* A task returned after six calls that all came back empty.
C5_Witness ==
    \E t \in Tasks :
        /\ tasks[t].pc = "finished"
        /\ tasks[t].nothing
        /\ Len(tasks[t].calls) = Len(SERP_PRIORITY) + 2

RunEnded == main.pc \in {"done", "aborted"}

InResultSet(t) ==
    \E i \in 1..Len(results) :
        /\ results[i] = tasks[t].acc.row
        /\ i <= Len(color_results)
        /\ color_results[i] = tasks[t].acc.row_color

\* C6 as claimed: when one task raises, the other tasks still run and their
\* rows and provenance maps are in the ResultSet when the run has ended.
C6_FailureIsolation ==
    RunEnded =>
        \A t \in Tasks :
            /\ Completed(t)
            /\ tasks[t].pc = "finished" => InResultSet(t)

\* C7: when the run finishes, the ResultSet holds exactly one (row,
\* provenance) pair per input occurrence, each the pair process_single_isbn
\* yields for that ISBN on its own, whatever the interleaving was.
C7_ResultSetComplete ==
    main.pc = "done" =>
        /\ Len(results) = N
        /\ Len(color_results) = N
        /\ \A j \in 1..N :
               LET e == process_single_isbn(isbns[j])
               IN  /\ ~e.raised
                   /\ Cardinality({i \in 1..N :
                          /\ results[i] = e.acc.row
                          /\ color_results[i] = e.acc.row_color})
                      = Cardinality({k \in 1..N : isbns[k] = isbns[j]})

\* A finished run whose first result is the row of the second ISBN.
C7_Witness ==
    /\ main.pc = "done"
    /\ N >= 2
    /\ isbns[1] # isbns[2]
    /\ results[1]["ISBN"] = isbns[2]
    /\ excel.written

\* C8 as claimed: the progress counts are 1, 2, ... in order, over the total
\* N, each fraction within [0, 1], and N/N has been reported when the run has
\* ended.
C8_ProgressSequence ==
    /\ \A k \in 1..Len(progress) :
           /\ progress[k].i = k
           /\ progress[k].total = N
           /\ 0 <= progress[k].i
           /\ progress[k].i <= progress[k].total
    /\ RunEnded => Len(progress) = N

\* C9 as claimed: at each report i/N exactly i tasks have completed.
C9_ExactlyCompleted ==
    \A k \in 1..Len(progress) : progress[k].completed = progress[k].i

\* C9 amended: at each report i/N exactly i results have been collected and
\* at least i tasks have completed (others may have completed and not yet been
\* collected); N/N is reported only once all N tasks have completed.
C9_CollectedCount ==
    /\ Len(progress) = Len(results)
    /\ main.i = Len(results)
    /\ \A k \in 1..Len(progress) :
           /\ progress[k].i = k
           /\ progress[k].completed >= progress[k].i
           /\ progress[k].completed <= N
           /\ progress[k].i = progress[k].total => progress[k].completed = N

\* The first report was made with two tasks already completed.
C9_Witness ==
    /\ Len(progress) >= 1
    /\ progress[1].i = 1
    /\ progress[1].completed = 2

SourceValue(t, tag, f) ==
    CASE tag = TagSerp   -> DictGet(tasks[t].res.final, f)
      [] tag = TagIsbndb -> DictGet(tasks[t].isbndb.data, f)
      [] tag = TagGoogle -> DictGet(tasks[t].google.data, f)

\* C10: at every step of process_single_isbn, each of the eight bibliographic
\* fields of the row is non-missing exactly when the provenance map has an
\* entry for it, and the entry is one of serp, isbndb, google and names the
\* source whose value the row holds.
C10_Provenance ==
    \A t \in Tasks :
        \A f \in MergeFields :
            LET v  == tasks[t].acc.row[f]
                rc == tasks[t].acc.row_color
            IN  /\ ~is_missing(v) <=> f \in DOMAIN rc
                /\ f \in DOMAIN rc =>
                       /\ rc[f].kind = "str"
                       /\ rc[f].s \in ProviderTags
                       /\ v = SourceValue(t, rc[f].s, f)

\* A returned row owned by all three sources.
C10_Witness ==
    \E t \in Tasks :
        /\ tasks[t].pc = "finished"
        /\ DictGet(tasks[t].acc.row_color, "title") = Str(TagSerp)
        /\ DictGet(tasks[t].acc.row_color, "author") = Str(TagIsbndb)
        /\ DictGet(tasks[t].acc.row_color, "category") = Str(TagGoogle)

\* The provenance tags that own at least one field of the task's row.
OwningTags(t) ==
    {tag \in ProviderTags :
        \E f \in DOMAIN tasks[t].acc.row_color :
            tasks[t].acc.row_color[f] = Str(tag)}

\* The tags of a set in alphabetical order, joined by comma and space.
TagList(S) ==
    Join(CommaSpace,
         SelectSeq(<< TagGoogle, TagIsbndb, TagSerp >>, LAMBDA tag : tag \in S))

\* C11: source_used of a returned row is the alphabetically sorted,
\* comma-and-space joined list of the distinct provenance tags that own a
\* field of the row, and null when no field has provenance.
C11_SourceUsed ==
    \A t \in Tasks :
        tasks[t].pc = "finished" =>
            tasks[t].acc.row["source_used"] =
                IF OwningTags(t) = {} THEN None ELSE Str(TagList(OwningTags(t)))

\* The resolver gave nothing, isbndb supplied title, author and publisher,
\* the catalog supplied the category: source_used is "google, isbndb".
C11_Witness ==
    \E t \in Tasks :
        /\ tasks[t].pc = "finished"
        /\ tasks[t].res.domain_used = None
        /\ DictGet(tasks[t].acc.row_color, "title") = Str(TagIsbndb)
        /\ DictGet(tasks[t].acc.row_color, "author") = Str(TagIsbndb)
        /\ DictGet(tasks[t].acc.row_color, "publisher") = Str(TagIsbndb)
        /\ DictGet(tasks[t].acc.row_color, "category") = Str(TagGoogle)
        /\ tasks[t].acc.row["source_used"] =
               Str(<< "g", "o", "o", "g", "l", "e", ",", " ",
                      "i", "s", "b", "n", "d", "b" >>)

\* Task t makes a domain attempt in this step.
Attempts(t) == tasks[t].pc = "serp" /\ tasks'[t].calls # tasks[t].calls

\* C12: domain credit.  Every domain attempt that adopts a title or a price
\* makes its domain the domain used, and an attempt that adopts nothing leaves
\* the domain used as it was: domain_used is the last domain that contributed.
\* It is absent exactly when nothing was adopted, title and price then both
\* missing.
C12_DomainCredit ==
    /\ [](\A t \in Tasks :
            /\ tasks[t].res.domain_used = None
                 <=> (/\ is_missing(tasks[t].res.final["title"])
                      /\ is_missing(tasks[t].res.final["price"]))
            /\ Merged(t) =>
                 tasks[t].acc.row["amazon_domain_used"] = tasks[t].res.domain_used)
    /\ [][\A t \in Tasks :
            Attempts(t) =>
                tasks'[t].res.domain_used =
                    IF tasks'[t].res.final # tasks[t].res.final
                    THEN Str(SERP_PRIORITY[tasks[t].di])
                    ELSE tasks[t].res.domain_used]_vars

\* The title came from amazon.com and the price, later, from amazon.co.uk,
\* which is the domain credited.
C12_Witness ==
    \E t \in Tasks :
        /\ tasks[t].pc = "isbndb"
        /\ tasks[t].res.final["title"] = Str(<< "T", "2" >>)
        /\ ~is_missing(tasks[t].res.final["price"])
        /\ tasks[t].res.serp_calls = 3
        /\ tasks[t].res.domain_used = Str(AmazonCoUk)

MetaFields == {"amazon_domain_used", "serp_api_calls"}

\* C13: once the resolver has returned, and after each later merge,
\* amazon_domain_used and serp_api_calls of the row are the resolver's domain
\* used and call counter, whatever MetadataLookup and CatalogLookup returned,
\* and neither field has a provenance entry.
C13_MetadataFields ==
    \A t \in Tasks :
        /\ Merged(t) =>
             /\ tasks[t].acc.row["amazon_domain_used"] = tasks[t].res.domain_used
             /\ tasks[t].acc.row["serp_api_calls"] = Num(tasks[t].res.serp_calls)
        /\ MetaFields \cap DOMAIN tasks[t].acc.row_color = {}

\* A returned row that both later sources wrote into, with a domain credited.
C13_Witness ==
    \E t \in Tasks :
        /\ tasks[t].pc = "finished"
        /\ tasks[t].res.domain_used = Str(AmazonDe)
        /\ tasks[t].acc.row["serp_api_calls"] = Num(4)
        /\ TagIsbndb \in OwningTags(t)
        /\ TagGoogle \in OwningTags(t)

\* C15 as claimed: a catalog response whose items list is empty makes
\* get_google_books_data return an empty record and empty provenance, as a
\* response without items does, so the task returns its row.
C15_EmptyItemsIsFailure ==
    \A t \in Tasks :
        (/\ net = "stub"
         /\ StubGoogle(tasks[t].isbn) = GoogleFail("empty_items")
         /\ Completed(t))
        => /\ tasks[t].pc = "finished"
           /\ tasks[t].google = GoogleEmpty

\* C16: the exported sheet has the header row and then one data row per
\* result, in ResultSet order; the cell of field f in data row i has the
\* font COLOR_MAP[tag] exactly when the provenance map of the i-th result,
\* which is the map of the task that returned the i-th row, has the tag serp,
\* isbndb or google for f; every other cell, the ISBN and the derived fields
\* among them, has the default font.
C16_ExportPairing ==
    excel.written =>
        /\ Len(excel.rows) = Len(results)
        /\ results # <<>> => excel.header = Columns
        /\ \A i \in 1..Len(excel.rows) :
             /\ \E t \in Tasks :
                    /\ tasks[t].acc.row = results[i]
                    /\ tasks[t].acc.row_color = color_results[i]
             /\ Len(excel.rows[i]) = Len(excel.header)
             /\ \A c \in 1..Len(excel.header) :
                  LET f    == excel.header[c]
                      cell == excel.rows[i][c]
                      own  == {tag \in ProviderTags :
                                  DictGet(color_results[i], f) = Str(tag)}
                  IN  /\ f = "ISBN" => cell.value = results[i]["ISBN"]
                      /\ \A tag \in ProviderTags :
                             cell.font = COLOR_MAP[tag] <=> tag \in own
                      /\ own = {} => cell.font = "default"
                      /\ f \in {"ISBN", "source_used"} \cup MetaFields
                             => cell.font = "default"

\* A sheet of two data rows, the first without any provenance, the second
\* with its title from the resolver and its author from isbndb.
C16_Witness ==
    /\ excel.written
    /\ Len(excel.rows) = 2
    /\ \A c \in 1..Len(Columns) : excel.rows[1][c].font = "default"
    /\ \E c, d \in 1..Len(Columns) :
          /\ Columns[c] = "title"
          /\ excel.rows[2][c].font = COLOR_MAP[TagSerp]
          /\ Columns[d] = "author"
          /\ excel.rows[2][d].font = COLOR_MAP[TagIsbndb]

\* C17: with deterministic provider responses, every call of
\* process_single_isbn on an ISBN returns the row and provenance map that the
\* call returns on its own, so two calls on the same ISBN return the same
\* pair, whatever other tasks ran before or alongside.
C17_Deterministic ==
    \A t, u \in Tasks :
        (/\ net = "stub"
         /\ tasks[t].isbn = tasks[u].isbn
         /\ tasks[t].pc = "finished"
         /\ tasks[u].pc = "finished")
        => /\ tasks[t].acc = tasks[u].acc
           /\ tasks[t].acc = process_single_isbn(tasks[t].isbn).acc

\* Two calls on the same ISBN have returned, the later-submitted one first.
C17_Witness ==
    /\ net = "stub"
    /\ Len(tasks) = 2
    /\ tasks[1].isbn = tasks[2].isbn
    /\ tasks[1].pc = "finished"
    /\ tasks[2].pc = "finished"
    /\ tasks[2].collected
    /\ ~tasks[1].collected
    /\ tasks[1].acc.row["source_used"] # None

\* C18: fill rule.  A title or price the resolver holds is never replaced by
\* a later attempt, and the price it holds is never exactly zero.  (That a
\* later domain answering a zero price can still give its title and be
\* credited is the reachable state C18_Witness.)
C18_FillRule ==
    /\ [](\A t \in Tasks : ~EqZero(tasks[t].res.final["price"]))
    /\ [][\A t \in Tasks :
            \A k \in {"title", "price"} :
                ~is_missing(tasks[t].res.final[k])
                    => tasks'[t].res.final[k] = tasks[t].res.final[k]]_vars

\* amazon.com has just answered a title with the price 0: the title is
\* adopted, amazon.com is credited, no price is held.
C18_Witness ==
    \E t \in Tasks :
        /\ tasks[t].pc = "serp"
        /\ tasks[t].di = 3
        /\ DictGet(tasks[t].data, "price") = Num(0)
        /\ DictGet(tasks[t].data, "title") = Str(<< "T", "2" >>)
        /\ tasks[t].res.final["title"] = Str(<< "T", "2" >>)
        /\ tasks[t].res.final["price"] = None
        /\ tasks[t].res.domain_used = Str(AmazonCom)

\* The calls of an invocation that made k domain attempts.
CallOrder(k) ==
    SubSeq(<< Call("serp", AmazonIn), Call("serp", AmazonCom),
              Call("serp", AmazonCoUk), Call("serp", AmazonDe) >>, 1, k)
    \o << Call("isbndb", <<>>), Call("google", <<>>) >>

\* C19: the calls an invocation has made are the first ones of: 1 to 4
\* CommerceSearch calls down the priority list amazon.in, amazon.com,
\* amazon.co.uk, amazon.de, then one MetadataLookup call, then one
\* CatalogLookup call; an invocation that has returned or raised has made
\* all of them.
C19_CallOrder ==
    \A t \in Tasks :
        LET k == tasks[t].res.serp_calls
            n == Len(tasks[t].calls)
        IN  /\ k \in 0..4
            /\ n <= k + 2
            /\ tasks[t].calls = SubSeq(CallOrder(k), 1, n)
            /\ tasks[t].pc = "serp" => n = k
            /\ tasks[t].pc = "isbndb" => n = k /\ k >= 1
            /\ tasks[t].pc = "google" => n = k + 1 /\ k >= 1
            /\ Completed(t) => n = k + 2 /\ k >= 1

\* amazon.in gave title and price, isbndb gave the author, and the catalog
\* was still asked: it answered, and nothing of its answer was adopted.
C19_Witness ==
    \E t \in Tasks :
        /\ tasks[t].pc = "finished"
        /\ tasks[t].calls = CallOrder(1)
        /\ TitleAndPriceAdopted(t)
        /\ DictGet(tasks[t].acc.row_color, "author") = Str(TagIsbndb)
        /\ DOMAIN tasks[t].google.data # {}
        /\ TagGoogle \notin OwningTags(t)

\* C20: the resolver returns a call counter in 1..4, and one below 4 only
\* when title and price are both held after the attempt at which it stopped,
\* that attempt having adopted one of them; while the loop runs every domain
\* tried so far is counted, whatever it answered, and the next one is due.
C20_NeverGivesUp ==
    \A t \in Tasks :
        LET k == tasks[t].res.serp_calls
        IN  /\ tasks[t].pc = "serp" =>
                 /\ tasks[t].di \in 1..4
                 /\ k = tasks[t].di - 1
            /\ Merged(t) =>
                 /\ k \in 1..4
                 /\ k < 4 =>
                      /\ TitleAndPriceAdopted(t)
                      /\ tasks[t].res.domain_used
                           = Str(<< AmazonIn, AmazonCom, AmazonCoUk >>[k])

\* amazon.in was skipped, amazon.com gave a title, no domain gave a price:
\* all four domains were tried.
C20_Witness ==
    \E t \in Tasks :
        /\ tasks[t].pc = "isbndb"
        /\ tasks[t].res.serp_calls = 4
        /\ SerpAttempts(t) = 4
        /\ tasks[t].res.final["title"] = Str(<< "T", "2" >>)
        /\ is_missing(tasks[t].res.final["price"])
        /\ tasks[t].res.domain_used = Str(AmazonCom)


====
